---- MODULE Spec2Model ----
(***************************************************************************)
(* Reconciliation core of the pgbouncer operator: the client link          *)
(* controller (src/relations/db.py, DbProvides) and the backend link       *)
(* controller (src/relations/backend_database.py, BackendDatabaseRequires).*)
(*                                                                         *)
(* Several units of the operator run the same handlers.  One of them is    *)
(* the leader.  Each lifecycle notification is handled to completion, so   *)
(* every handler is one atomic action.  Names of users and roles are       *)
(* sequences of one-character strings, because the code rewrites them      *)
(* character by character (str.replace); <<>> stands for Python's None     *)
(* there.  The other databag values are strings.                           *)
(***************************************************************************)
EXTENDS Integers, Sequences, FiniteSets, TLC

(* ------------------------------ bounds -------------------------------- *)

\* number of client relations (relation ids 1..MaxRel)
MaxRel == 2
\* largest number of read-replica endpoints the backend reports
MaxReplicas == 1
\* largest relation id and longest name part in the username universe
MaxRelId == 12
MaxNameLen == 3
\* number of units of the remote application on a client relation
MaxRemoteUnits == 2

(* ----------------------------- universe ------------------------------- *)

Units == {"u0", "u1"}
Rels == 1..MaxRel
\* the database names a client can request; one of them is the name of
\* another one followed by "_standby"
DbNames == {"cli", "app", "cli_standby"}
Passwords == {"pw1", "pw2"}
ReplicaHosts == <<"10.0.0.2", "10.0.0.3", "10.0.0.4">>
PrimaryHost == "10.0.0.1"
BackendPort == "5432"

\* Python's None for a string-valued databag entry, and str(None)
None == "<None>"
StrNone == "None"
\* None for a name (a sequence of characters)
NoName == <<>>

\* constants.py: PG and PGB
PG == "postgres"
PGB == "pgbouncer"

\* the operator's application name and the model name, as characters
AppName == <<"p", "-", "b">>
ModelName == <<"m">>
\* the username the backend publishes in its databag ("relation-3" in the
\* module docstring), shortened
BackendUsername == <<"r", "-", "3">>

(* ------------------------------ strings ------------------------------- *)

Digits == <<"0", "1", "2", "3", "4", "5", "6", "7", "8", "9">>

\* str(n) for a natural number n
RECURSIVE IntToStr(_)
IntToStr(n) ==
    IF n < 10 THEN <<Digits[n + 1]>>
    ELSE IntToStr(n \div 10) \o <<Digits[(n % 10) + 1]>>

\* s.replace("-", "_")
ReplaceDash(s) == [i \in 1..Len(s) |-> IF s[i] = "-" THEN "_" ELSE s[i]]

\* ",".join(hosts) for a sequence of strings
RECURSIVE JoinComma(_)
JoinComma(hosts) ==
    IF hosts = <<>> THEN ""
    ELSE IF Len(hosts) = 1 THEN hosts[1]
    ELSE hosts[1] \o "," \o JoinComma(Tail(hosts))

\* an endpoint "host:port" as the pair that split(":") yields
Endpoint(host, port) == <<host, port>>
SplitHost(ep) == ep[1]
SplitPort(ep) == ep[2]

\* DbProvides._generate_username with a wrong separator handling: the
\* relation id is left out of the name
GenerateUsernameNoId(app, relid, model) ==
    ReplaceDash(app \o <<"_", "u", "s", "e", "r", "_">> \o <<"_">> \o model)

\* DbProvides._generate_username
GenerateUsername(app, relid, model) ==
    ReplaceDash(app \o <<"_", "u", "s", "e", "r", "_">> \o IntToStr(relid)
                \o <<"_">> \o model)

\* the usernames of the client relations of this deployment
UserNames == [r \in Rels |-> GenerateUsername(AppName, r, ModelName)]

\* the username of client relation r in this deployment
UserOf(r) == UserNames[r]

\* DbProvides.relation_name
RelationName(admin) == IF admin THEN "db-admin" ELSE "db"

\* f"{database}_standby"
Standby(database) == database \o "_standby"

(* ------------------------------- state -------------------------------- *)

VARIABLES
    leader,    \* the unit that is_leader() answers True for
    backend,   \* the backend relation: [rel, bag, replicas, ready]
    pg,        \* the backend PostgreSQL: [roles, dbs, authfn]
    rels,      \* client relation id -> [state, admin, reqdb, ext, done]
    ubag,      \* client relation id -> unit -> that unit's databag
    abag,      \* client relation id -> the operator's application databag
    peers,     \* the peer store: [pw, flags]
    cfg,       \* the Config Document: [databases, users, settings]
    authfile,  \* the credential file: the set of users it lists
    names      \* the inputs and outputs of the functions checked on their
               \* own.  SpecUser, SpecUnique: [app, model, out], out the
               \* usernames generated per (unit, relation id).
               \* SpecSubnets: [remote, data, out], the relation data of
               \* one client relation and the allowed-subnets published.
               \* Empty in the other specifications

vars == <<leader, backend, pg, rels, ubag, abag, peers, cfg, authfile, names>>

\* a connection string, as the fields parse_dict_to_kv_string joins
NoMaster == [dbname |-> None, user |-> NoName, password |-> None]
EmptyBag == [database |-> None, user |-> NoName, password |-> None,
             master |-> NoMaster]
NoRel == [state |-> "none", admin |-> FALSE, reqdb |-> None, ext |-> FALSE,
          done |-> {}]
BackendFields == {"endpoints", "username", "password"}

\* the part of the state the handlers read and write; calls collects the
\* backend calls a handler issues, in order, wrote the databags it writes,
\* and status is the unit status it sets last ("unset": none; "not_active":
\* the status check_status returned when it is not ActiveStatus)
World == [ubag |-> ubag, abag |-> abag, peers |-> peers, cfg |-> cfg,
          pg |-> pg, authfile |-> authfile, ready |-> backend.ready,
          calls |-> <<>>, wrote |-> {}, status |-> "unset"]

\* a handler's outcome: the world it leaves and how the event ended
Res(w, res) == [w |-> w, res |-> res]

\* self.charm.unit.status = ...
SetStatus(w, status) == [w EXCEPT !.status = status]

Call(w, op, arg) == [w EXCEPT !.calls = Append(@, [op |-> op, arg |-> arg])]

(* ---------------------- the backend link's view ------------------------ *)

\* BackendDatabaseRequires.relation
BackendRelation == backend.rel = "present"

\* BackendDatabaseRequires.postgres: None (FALSE) unless the relation exists
\* and its databag holds endpoints, username and password
Postgres == BackendRelation /\ BackendFields \subseteq backend.bag

\* f"pgbouncer_auth_{username}".replace("-", "_")
AuthUserName ==
    ReplaceDash(<<"p", "g", "b", "o", "u", "n", "c", "e", "r", "_",
                  "a", "u", "t", "h", "_">> \o BackendUsername)

\* BackendDatabaseRequires.auth_user (read only where the relation exists)
AuthUser ==
    IF "username" \notin backend.bag THEN NoName ELSE AuthUserName

\* the primary endpoint of the backend databag
PostgresEndpoint == Endpoint(PrimaryHost, BackendPort)

\* BackendDatabaseRequires.get_read_only_endpoints
ReadOnlyEndpoints ==
    [i \in 1..Len(backend.replicas) |-> Endpoint(backend.replicas[i], BackendPort)]

\* charm.check_status: active only while the backend link is Ready
CheckStatusActive == Postgres /\ backend.ready

\* the client relations unit u still sees in model.relations
Visible(u) == {r \in Rels : rels[r].state \in {"active", "dying"}
                            /\ u \notin rels[r].done}

(* --------------------- databags of a client relation ------------------- *)

UnitBag(r, u) == [scope |-> "unit", r |-> r, u |-> u]
AppBag(r) == [scope |-> "app", r |-> r, u |-> "-"]

\* DbProvides.get_databags without the leader test
GetDatabagsAlways(u, r, ldr) == <<UnitBag(r, u), AppBag(r)>>

\* DbProvides.get_databags: this unit's databag, and the application's
\* databag when this unit is the leader
GetDatabags(u, r, ldr) ==
    IF ldr THEN <<UnitBag(r, u), AppBag(r)>> ELSE <<UnitBag(r, u)>>

\* str(item) of update_databags; user names and connection strings are
\* never None where they are written
Str(key, item) ==
    IF key \in {"password", "database"} /\ item = None THEN StrNone ELSE item

\* dict.update of one databag
BagUpdate(bag, updates) ==
    [k \in DOMAIN bag |-> IF k \in DOMAIN updates THEN Str(k, updates[k])
                          ELSE bag[k]]

\* DbProvides.update_databags; updates holds the keys the model tracks, and
\* a call whose keys are all untracked still writes the databags
UpdateDatabags(w, u, r, ldr, updates) ==
    LET bags == GetDatabags(u, r, ldr)
        ids == {bags[i] : i \in 1..Len(bags)}
    IN [w EXCEPT
          !.ubag[r][u] = IF UnitBag(r, u) \in ids THEN BagUpdate(@, updates)
                         ELSE @,
          !.abag[r] = IF AppBag(r) \in ids THEN BagUpdate(@, updates) ELSE @,
          !.wrote = @ \cup ids]

\* get_databags(relation)[0], read from world w
OwnBag(w, u, r) == w.ubag[r][u]

\* DbProvides.update_connection_info
UpdateConnectionInfo(w, u, r, ldr) ==
    LET databag == OwnBag(w, u, r)
        database == databag.database
        user == databag.user
        password == databag.password
    IN IF database = None \/ user = NoName \/ password = None THEN w
       ELSE UpdateDatabags(w, u, r, ldr,
                [master |-> [dbname |-> database, user |-> user,
                             password |-> password]])

\* charm.update_client_connection_info: update_connection_info for every
\* client relation of both flavors
RECURSIVE UpdateClientConnectionInfo(_, _, _, _)
UpdateClientConnectionInfo(w, u, ldr, todo) ==
    IF todo = {} THEN w
    ELSE LET r == CHOOSE x \in todo : \A y \in todo : x <= y
         IN UpdateClientConnectionInfo(UpdateConnectionInfo(w, u, r, ldr),
                                       u, ldr, todo \ {r})

(* -------------------------- Config Document --------------------------- *)

\* dict.pop(key, None) on a mapping
Pop(map, key) == [k \in DOMAIN map \ {key} |-> map[k]]

\* map[key] = value
Put(map, key, value) == [k \in DOMAIN map \cup {key} |->
                            IF k = key THEN value ELSE map[k]]

\* PgbConfig.add_user / remove_user
AddUser(c, user, admin) == [c EXCEPT !.users = Put(@, user, admin)]
RemoveUser(c, user) == [c EXCEPT !.users = Pop(@, user)]

Route(host, dbname, port, authUser) ==
    [host |-> host, dbname |-> dbname, port |-> port, auth_user |-> authUser]

\* the hosts of a list of endpoints
Hosts(eps) == [i \in 1..Len(eps) |-> SplitHost(eps[i])]

\* the standby branch of update_postgres_endpoints when it only ever adds
\* the alias and never removes a stale one
StandbyStepKeepStale(dbs, database) ==
    IF Len(ReadOnlyEndpoints) > 0
    THEN Put(dbs, Standby(database),
             Route(JoinComma(Hosts(ReadOnlyEndpoints)), database,
                   SplitPort(ReadOnlyEndpoints[1]), AuthUser))
    ELSE dbs

\* the standby branch of update_postgres_endpoints when it patches the
\* alias it finds instead of writing it afresh: the replica hosts are
\* appended to the hosts already listed
StandbyStepAppend(dbs, database) ==
    IF Len(ReadOnlyEndpoints) > 0
    THEN Put(dbs, Standby(database),
             Route(IF Standby(database) \in DOMAIN dbs
                   THEN dbs[Standby(database)].host \o ","
                        \o JoinComma(Hosts(ReadOnlyEndpoints))
                   ELSE JoinComma(Hosts(ReadOnlyEndpoints)),
                   database, SplitPort(ReadOnlyEndpoints[1]), AuthUser))
    ELSE Pop(dbs, Standby(database))

\* the standby branch of update_postgres_endpoints (db.py 366-375)
StandbyStep(dbs, database) ==
    IF Len(ReadOnlyEndpoints) > 0
    THEN Put(dbs, Standby(database),
             Route(JoinComma(Hosts(ReadOnlyEndpoints)), database,
                   SplitPort(ReadOnlyEndpoints[1]), AuthUser))
    ELSE Pop(dbs, Standby(database))

\* DbProvides.update_postgres_endpoints, on a Config Document c; it raises
\* (ok = FALSE) when the backend databag or its endpoints are missing
UpdatePostgresEndpoints(c, database, admin) ==
    IF database = None THEN [cfg |-> c, ok |-> TRUE]
    ELSE IF ~BackendRelation \/ "endpoints" \notin backend.bag
    THEN [cfg |-> c, ok |-> FALSE]
    ELSE LET d1 == Put(c.databases, database,
                       Route(SplitHost(PostgresEndpoint), database,
                             SplitPort(PostgresEndpoint), AuthUser))
             d2 == StandbyStep(d1, database)
             d3 == IF admin
                   THEN Put(d2, PG, Route(SplitHost(PostgresEndpoint), PG,
                                          SplitPort(PostgresEndpoint), AuthUser))
                   ELSE d2
         IN [cfg |-> [c EXCEPT !.databases = d3], ok |-> TRUE]

(* ------------------------ backend SQL capability ----------------------- *)

\* BackendDatabaseRequires.initialise_auth_function / remove_auth_function:
\* the script runs in the databases of dbs in order; failAt = 0 means no
\* failure, failAt = k means the k-th execution raises psycopg2.Error
RECURSIVE AuthFunctionLoop(_, _, _, _, _)
AuthFunctionLoop(w, op, dbs, i, failAt) ==
    IF i > Len(dbs) THEN [w |-> w, ok |-> TRUE]
    ELSE IF i = failAt THEN [w |-> Call(w, op, dbs[i]), ok |-> FALSE]
    ELSE LET w1 == Call(w, op, dbs[i])
             w2 == [w1 EXCEPT !.pg.authfn =
                        IF op = "initialise_auth_function" THEN @ \cup {dbs[i]}
                        ELSE @ \ {dbs[i]}]
         IN AuthFunctionLoop(w2, op, dbs, i + 1, failAt)

InitialiseAuthFunction(w, dbs, failAt) ==
    AuthFunctionLoop(w, "initialise_auth_function", dbs, 1, failAt)

RemoveAuthFunction(w, dbs, failAt) ==
    AuthFunctionLoop(w, "remove_auth_function", dbs, 1, failAt)

\* PostgreSQL.create_user, create_database, delete_user when they succeed
CreateUser(w, user) ==
    [Call(w, "create_user", user) EXCEPT !.pg.roles = @ \cup {user}]
CreateDatabase(w, database) ==
    [Call(w, "create_database", database) EXCEPT !.pg.dbs = @ \cup {database}]
DeleteUser(w, user) ==
    [Call(w, "delete_user", user) EXCEPT !.pg.roles = @ \ {user}]

(* ----------------------- client link: join ---------------------------- *)

\* the points of the join handler where a backend call can fail
JoinFailures == {"none", "create_user", "create_database", "auth_function"}

\* db.py 228: a join that goes on to the backend on every unit
JoinStopsHereNever(ldr) == FALSE

\* db.py 228-229: a unit that is not the leader stops after the databags
JoinStopsHere(ldr) == ~ldr

\* db.py 255-257 entering every client user as an administrator
JoinConfigUserAsAdmin(c, user, admin) == AddUser(c, user, TRUE)

\* db.py 255-257: cfg.add_user(user, admin=self.admin) and the render
JoinConfigUser(c, user, admin) == AddUser(c, user, admin)

\* db.py 174-177 with the test dropped: the join goes on whatever the status
JoinNotReadyNever == FALSE

\* db.py 174-177: check_status() is not ActiveStatus
JoinNotReady == ~CheckStatusActive

\* db.py 198-210: the remote application or unit databag has "extensions"
JoinRejects(r) == rels[r].ext

\* db.py 231-257: the leader's part of the join
JoinProvision(w, user, password, database, admin, fail) ==
    IF fail = "create_user"
    THEN Res(SetStatus(Call(w, "create_user", user), "blocked"), "failed")
    ELSE LET w1 == CreateUser(w, user)
         IN IF fail = "create_database"
            THEN Res(SetStatus(Call(w1, "create_database", database),
                               "blocked"), "failed")
            ELSE LET w2 == SetStatus(CreateDatabase(w1, database), "active")
                     fn == InitialiseAuthFunction(w2, <<database>>,
                               IF fail = "auth_function" THEN 1 ELSE 0)
                 IN IF ~fn.ok THEN Res(fn.w, "raised")
                    ELSE LET w3 == [fn.w EXCEPT !.peers.pw = Put(@, user, password)]
                             w4 == [w3 EXCEPT !.cfg = JoinConfigUser(@, user, admin)]
                         IN Res(w4, "done")

\* DbProvides._on_relation_joined on unit u for relation r; generated is
\* the password generate_password returns on the leader, fail the backend
\* call that fails (only the leader generates a password or calls the
\* backend, so the actions draw these inputs for the leader alone)
OnRelationJoined(w, u, r, ldr, generated, fail) ==
    IF JoinNotReady THEN Res(SetStatus(w, "not_active"), "deferred")
    ELSE IF rels[r].reqdb = None THEN Res(SetStatus(w, "waiting"), "deferred")
    ELSE IF JoinRejects(r) THEN Res(SetStatus(w, "blocked"), "failed")
    ELSE LET database == rels[r].reqdb
             user == UserOf(r)
             stored == IF user \in DOMAIN w.peers.pw THEN w.peers.pw[user]
                       ELSE None
             password == IF ldr THEN generated ELSE stored
             deferred == ~ldr /\ password = None
             w1 == UpdateDatabags(SetStatus(w, "active"), u, r, ldr,
                       [user |-> user, password |-> password,
                        database |-> database])
         IN IF JoinStopsHere(ldr)
            THEN Res(w1, IF deferred THEN "deferred" ELSE "done")
            ELSE JoinProvision(w1, user, password, database,
                               rels[r].admin, fail)

(* ----------------------- client link: change -------------------------- *)

\* DbProvides._on_relation_changed
OnRelationChanged(w, u, r, ldr) ==
    IF ~CheckStatusActive THEN Res(SetStatus(w, "not_active"), "deferred")
    ELSE LET databag == OwnBag(w, u, r)
             database == databag.database
             user == databag.user
             password == databag.password
         IN IF database = None \/ user = NoName \/ password = None
            THEN Res(SetStatus(w, "waiting"), "deferred")
            ELSE LET w1 == UpdateConnectionInfo(SetStatus(w, "active"),
                                                u, r, ldr)
                     upe == UpdatePostgresEndpoints(w1.cfg,
                                OwnBag(w1, u, r).database, rels[r].admin)
                 IN IF ~upe.ok THEN Res(w1, "raised")
                    ELSE Res(UpdateDatabags([w1 EXCEPT !.cfg = upe.cfg],
                                 u, r, ldr,
                                 [user |-> user, password |-> password,
                                  database |-> database]), "done")

(* ----------------------- client link: depart -------------------------- *)

\* DbProvides._on_relation_departed; ownApp: the departing unit belongs to
\* the operator's application.  The key of the breaking flag is built from
\* self.relation, an attribute DbProvides does not have: the leader raises
\* AttributeError there and the flag is not written
OnRelationDeparted(w, u, r, ldr, ownApp) ==
    LET w1 == UpdateDatabags(w, u, r, ldr, <<>>)
    IN IF ownApp /\ ldr THEN Res(w1, "raised") ELSE Res(w1, "done")

(* ----------------------- client link: break --------------------------- *)

BreakFailures == {"none", "remove_auth_function", "delete_user"}

\* the key f"{relation_name}-{relation.id}-relation-breaking"
BreakFlag(r) == <<RelationName(rels[r].admin), r>>

\* db.py 426 with the test dropped: every break is a teardown
IsBreakingAlways(w, r) == TRUE

\* db.py 425-426: the breaking flag of this relation is in the peer store
IsBreaking(w, r) == BreakFlag(r) \in w.peers.flags

\* db.py 451-460 with the scan dropped
DeleteDbAlways(w, u, r, database) == TRUE

\* db.py 451-460: no other client relation of either flavor has this
\* database in this unit's databag
DeleteDb(w, u, r, database) ==
    ~\E o \in Visible(u) \ {r} : w.ubag[o][u].database = database

\* db.py 473-479 deferring the event when delete_user fails
DeleteUserFailedDefers(w, user) ==
    Res(Call(w, "delete_user", user), "deferred")

\* db.py 473-479: delete_user raises PostgreSQLDeleteUserError, which the
\* handler logs
DeleteUserFailed(w, user) == Res(Call(w, "delete_user", user), "done")

\* db.py 447-479: the teardown proper
Teardown(w, u, r, user, database, fail) ==
    LET deleteDb == DeleteDb(w, u, r, database)
        c1 == IF deleteDb
              THEN [w.cfg EXCEPT !.databases = Pop(Pop(@, database),
                                                   Standby(database))]
              ELSE w.cfg
        rm == IF deleteDb
              THEN RemoveAuthFunction(w, <<database>>,
                       IF fail = "remove_auth_function" THEN 1 ELSE 0)
              ELSE [w |-> w, ok |-> TRUE]
    IN IF ~rm.ok THEN Res(rm.w, "raised")
       ELSE LET w1 == [rm.w EXCEPT !.cfg = RemoveUser(c1, user)]
                w2 == [w1 EXCEPT !.peers.pw = Pop(@, user)]
            IN IF fail = "delete_user" THEN DeleteUserFailed(w2, user)
               ELSE Res(DeleteUser(w2, user), "done")

\* DbProvides._on_relation_broken
OnRelationBroken(w, u, r, ldr, fail) ==
    IF ~ldr THEN Res(UpdateClientConnectionInfo(w, u, ldr, Visible(u)), "done")
    ELSE IF ~IsBreaking(w, r) THEN Res(UpdateConnectionInfo(w, u, r, ldr), "done")
    ELSE LET w1 == [w EXCEPT !.peers.flags = @ \ {BreakFlag(r)}]
             databag == OwnBag(w1, u, r)
             user == databag.user
             database == databag.database
         IN IF ~Postgres \/ user = NoName \/ database = None
            THEN Res(w1, "deferred")
            ELSE Teardown(w1, u, r, user, database, fail)

(* ------------------------- backend link ------------------------------- *)

\* charm.update_postgres_endpoints: update_postgres_endpoints for every
\* client relation of both flavors, as unit u
RECURSIVE CharmUpdatePostgresEndpoints(_, _, _)
CharmUpdatePostgresEndpoints(w, u, todo) ==
    IF todo = {} THEN [w |-> w, ok |-> TRUE]
    ELSE LET r == CHOOSE x \in todo : \A y \in todo : x <= y
             upe == UpdatePostgresEndpoints(w.cfg, OwnBag(w, u, r).database,
                                            rels[r].admin)
         IN IF ~upe.ok THEN [w |-> w, ok |-> FALSE]
            ELSE CharmUpdatePostgresEndpoints([w EXCEPT !.cfg = upe.cfg], u,
                                              todo \ {r})

\* the points of the database-created handler where a backend call can fail
CreatedFailures == {"none", "create_user", "auth_function_1", "auth_function_2"}

\* backend_database.py 125 installing the auth function in the pooler's own
\* database only
CreatedAuthDatabasesOwnOnly == <<PGB>>

\* backend_database.py 125: [self.database.database, PG]
CreatedAuthDatabases == <<PGB, PG>>

\* backend_database.py 116 with the test dropped: the handler goes on
\* whatever the backend databag holds
CreatedNotReadyNever == FALSE

\* backend_database.py 116: self.postgres is None
CreatedNotReady == ~Postgres

\* BackendDatabaseRequires._on_database_created; the charm calls that
\* render the credential file and the Config Document and republish the
\* endpoints are entered in calls after the backend calls
OnDatabaseCreated(w, u, ldr, fail) ==
    IF ~ldr THEN Res(SetStatus(w, "maintenance"), "done")
    ELSE IF CreatedNotReady
    THEN Res(SetStatus(w, "maintenance"), "deferred")
    ELSE IF fail = "create_user"
    THEN Res(Call(SetStatus(w, "maintenance"), "create_user", AuthUser),
             "raised")
    ELSE LET w1 == CreateUser(SetStatus(w, "maintenance"), AuthUser)
             fn == InitialiseAuthFunction(w1, CreatedAuthDatabases,
                       IF fail = "auth_function_1" THEN 1
                       ELSE IF fail = "auth_function_2" THEN 2 ELSE 0)
         IN IF ~fn.ok THEN Res(fn.w, "raised")
            ELSE LET w2 == Call([fn.w EXCEPT !.authfile = {AuthUser}],
                                "render_auth_file", AuthUser)
                     c1 == AddUser(w2.cfg, BackendUsername, TRUE)
                     c2 == [c1 EXCEPT !.settings = @ \cup {"auth_query", "auth_file"}]
                     w3 == Call([w2 EXCEPT !.cfg = c2],
                                "render_pgb_config", "auth")
                     upe == CharmUpdatePostgresEndpoints(
                                Call(w3, "update_postgres_endpoints", "reload"),
                                u, Visible(u))
                 IN IF ~upe.ok THEN Res(upe.w, "raised")
                    ELSE Res(SetStatus([upe.w EXCEPT !.ready = TRUE],
                                       "active"), "done")

\* BackendDatabaseRequires._on_endpoints_changed
OnEndpointsChanged(w, u) ==
    LET upe == CharmUpdatePostgresEndpoints(w, u, Visible(u))
    IN Res(upe.w, IF upe.ok THEN "done" ELSE "raised")

\* backend_database.py 161 removing the auth function from the pooler's own
\* database only
DepartedAuthDatabasesOwnOnly == <<PGB>>

\* backend_database.py 161: [PGB, PG]
DepartedAuthDatabases == <<PGB, PG>>

\* BackendDatabaseRequires._on_relation_departed (no notification is
\* routed to it: __init__ does not observe relation_departed).  While the
\* backend databag is incomplete self.postgres is None and
\* remove_auth_function raises AttributeError, which is not caught
OnBackendRelationDeparted(w, u, ldr, departingSelf, fail) ==
    IF ~departingSelf \/ ~ldr THEN Res(w, "done")
    ELSE IF ~Postgres THEN Res(w, "raised")
    ELSE LET rm == RemoveAuthFunction(w, DepartedAuthDatabases,
                       IF fail = "auth_function_1" THEN 1
                       ELSE IF fail = "auth_function_2" THEN 2 ELSE 0)
         IN IF ~rm.ok THEN Res(SetStatus(rm.w, "blocked"), "failed")
            ELSE IF fail = "delete_user"
            THEN Res(Call(rm.w, "delete_user", AuthUser), "raised")
            ELSE Res(DeleteUser(rm.w, AuthUser), "done")

\* backend_database.py 98-105: __init__ observes database_created,
\* endpoints_changed, read_only_endpoints_changed and relation_broken, and
\* not relation_departed
BackendDepartedObserved == FALSE

\* the framework's dispatch of relation-departed of the backend relation:
\* the handler runs only if it is observed
DispatchBackendDeparted(w, u, ldr, departingSelf, fail) ==
    IF BackendDepartedObserved
    THEN OnBackendRelationDeparted(w, u, ldr, departingSelf, fail)
    ELSE Res(w, "done")

\* BackendDatabaseRequires._on_relation_broken.  The Config Document exists
\* from the start, so read_pgb_config does not raise FileNotFoundError.
\* pgKnown: the relation and the remote databag are still readable while
\* the hook runs; when they are not, self.postgres is None and .user raises
OnBackendRelationBroken(w, u, pgKnown) ==
    IF ~pgKnown THEN Res(w, "raised")
    ELSE LET c1 == RemoveUser(w.cfg, BackendUsername)
             c2 == [c1 EXCEPT !.settings = @ \ {"auth_user", "auth_query"}]
         IN Res([w EXCEPT !.cfg = c2, !.authfile = {}, !.ready = FALSE], "done")

(* ------------------------------ actions ------------------------------- *)

\* the state a handler leaves
Commit(o) ==
    /\ ubag' = o.w.ubag
    /\ abag' = o.w.abag
    /\ peers' = o.w.peers
    /\ cfg' = o.w.cfg
    /\ pg' = o.w.pg
    /\ authfile' = o.w.authfile
    /\ backend' = [backend EXCEPT !.ready = o.w.ready]

Joined(u, r, pws, fails) ==
    /\ r \in Visible(u)
    /\ \E generated \in IF u = leader THEN pws ELSE {None},
          fail \in IF u = leader THEN fails ELSE {"none"} :
          Commit(OnRelationJoined(World, u, r, u = leader, generated, fail))
    /\ UNCHANGED <<leader, rels, names>>

Changed(u, r) ==
    /\ r \in Visible(u)
    /\ Commit(OnRelationChanged(World, u, r, u = leader))
    /\ UNCHANGED <<leader, rels, names>>

Departed(u, r) ==
    /\ r \in Visible(u)
    /\ \E ownApp \in IF u = leader THEN BOOLEAN ELSE {FALSE} :
          Commit(OnRelationDeparted(World, u, r, u = leader, ownApp))
    /\ UNCHANGED <<leader, rels, names>>

\* relation-broken on unit u; when the handler completes, the relation is
\* gone for u, and gone altogether once every unit of units has handled it
Broken(u, r, fails, units) ==
    /\ rels[r].state = "dying"
    /\ u \notin rels[r].done
    /\ \E fail \in IF u = leader THEN fails ELSE {"none"} :
          LET o == OnRelationBroken(World, u, r, u = leader, fail)
              done == IF o.res = "done" THEN rels[r].done \cup {u}
                      ELSE rels[r].done
              gone == units \subseteq done
              w1 == [o.w EXCEPT
                       !.ubag[r][u] = IF o.res = "done" THEN EmptyBag ELSE @,
                       !.abag[r] = IF gone THEN EmptyBag ELSE @]
          IN /\ Commit(Res(w1, o.res))
             /\ rels' = [rels EXCEPT ![r].done = done,
                                     ![r].state = IF gone THEN "gone" ELSE @]
    /\ UNCHANGED <<leader, names>>

DatabaseCreated(u, fails) ==
    /\ BackendRelation
    /\ \E fail \in IF u = leader THEN fails ELSE {"none"} :
          Commit(OnDatabaseCreated(World, u, u = leader, fail))
    /\ UNCHANGED <<leader, rels, names>>

EndpointsChanged(u) ==
    /\ BackendRelation
    /\ Commit(OnEndpointsChanged(World, u))
    /\ UNCHANGED <<leader, rels, names>>

BackendBroken(u) ==
    /\ backend.rel = "broken"
    /\ \E pgKnown \in BOOLEAN :
          Commit(OnBackendRelationBroken(World, u, pgKnown))
    /\ UNCHANGED <<leader, rels, names>>

(* --------------------------- environment ------------------------------ *)

LeaderChange(u) ==
    /\ u # leader
    /\ leader' = u
    /\ UNCHANGED <<backend, pg, rels, ubag, abag, peers, cfg, authfile, names>>

BackendRelate ==
    /\ backend.rel = "absent"
    /\ backend' = [backend EXCEPT !.rel = "present"]
    /\ UNCHANGED <<leader, pg, rels, ubag, abag, peers, cfg, authfile, names>>

\* the backend application fills its databag
BackendPublish(field) ==
    /\ BackendRelation
    /\ field \notin backend.bag
    /\ backend' = [backend EXCEPT !.bag = @ \cup {field}]
    /\ UNCHANGED <<leader, pg, rels, ubag, abag, peers, cfg, authfile, names>>

\* the backend reports n read-replica endpoints
ReplicasChange(n) ==
    /\ BackendRelation
    /\ n # Len(backend.replicas)
    /\ backend' = [backend EXCEPT !.replicas = SubSeq(ReplicaHosts, 1, n)]
    /\ UNCHANGED <<leader, pg, rels, ubag, abag, peers, cfg, authfile, names>>

BackendRemove ==
    /\ BackendRelation
    /\ backend' = [backend EXCEPT !.rel = "broken", !.bag = {}, !.replicas = <<>>]
    /\ UNCHANGED <<leader, pg, rels, ubag, abag, peers, cfg, authfile, names>>

\* a client application relates; relation ids are handed out in order
ClientRelate(r, admin, reqdb, ext) ==
    /\ rels[r].state = "none"
    /\ \A o \in Rels : o < r => rels[o].state # "none"
    /\ rels' = [rels EXCEPT ![r] = [state |-> "active", admin |-> admin,
                                    reqdb |-> reqdb, ext |-> ext, done |-> {}]]
    /\ UNCHANGED <<leader, backend, pg, ubag, abag, peers, cfg, authfile, names>>

ClientRemove(r) ==
    /\ rels[r].state = "active"
    /\ rels' = [rels EXCEPT ![r].state = "dying"]
    /\ UNCHANGED <<leader, backend, pg, ubag, abag, peers, cfg, authfile, names>>

\* the breaking flag of relation r appears in the peer store, written by a
\* process of the operator whose depart handler builds the key from the
\* departing relation
PeerFlagRaised(r) ==
    /\ rels[r].state = "dying"
    /\ BreakFlag(r) \notin peers.flags
    /\ peers' = [peers EXCEPT !.flags = @ \cup {BreakFlag(r)}]
    /\ UNCHANGED <<leader, backend, pg, rels, ubag, abag, cfg, authfile, names>>

(* --------------------------- specification ---------------------------- *)

EmptyMap == [k \in {} |-> None]

Init ==
    /\ leader = "u0"
    /\ backend = [rel |-> "absent", bag |-> {}, replicas |-> <<>>,
                  ready |-> FALSE]
    /\ pg = [roles |-> {}, dbs |-> {}, authfn |-> {}]
    /\ rels = [r \in Rels |-> NoRel]
    /\ ubag = [r \in Rels |-> [u \in Units |-> EmptyBag]]
    /\ abag = [r \in Rels |-> EmptyBag]
    /\ peers = [pw |-> EmptyMap, flags |-> {}]
    /\ cfg = [databases |-> EmptyMap, users |-> EmptyMap, settings |-> {}]
    /\ authfile = {}
    /\ names = EmptyMap

\* every notification and environment step; e names the client relations,
\* the database names they request, the passwords generate_password can
\* return, the backend calls that can fail and the numbers of replicas
\* the backend can report
NextOf(e) ==
    \/ \E u \in Units, r \in e.rels : Joined(u, r, e.pws, e.joinFails)
    \/ \E u \in Units, r \in e.rels : Changed(u, r)
    \/ \E u \in Units, r \in e.rels : Departed(u, r)
    \/ \E u \in Units, r \in e.rels : Broken(u, r, e.breakFails, Units)
    \/ \E u \in Units : DatabaseCreated(u, e.createdFails)
    \/ \E u \in Units : EndpointsChanged(u)
    \/ \E u \in Units : BackendBroken(u)
    \/ \E u \in Units : LeaderChange(u)
    \/ BackendRelate
    \/ \E f \in BackendFields : BackendPublish(f)
    \/ \E n \in e.replicas : ReplicasChange(n)
    \/ BackendRemove
    \/ \E r \in e.rels, admin \in BOOLEAN, reqdb \in e.dbs \cup {None},
          ext \in BOOLEAN : ClientRelate(r, admin, reqdb, ext)
    \/ \E r \in e.rels : ClientRemove(r)
    \/ \E r \in e.rels : PeerFlagRaised(r)

\* one client relation in the full environment, the backend with no
\* replica or one
OneLink == [rels |-> {1}, dbs |-> {"cli"}, pws |-> {"pw1"},
            joinFails |-> JoinFailures, breakFails |-> BreakFailures,
            createdFails |-> CreatedFailures, replicas |-> {0, 1}]

Next == NextOf(OneLink)

Spec == Init /\ [][Next]_vars

\* one client relation in the full environment, the backend with up to
\* MaxReplicas replicas
OneLinkReplicas == [OneLink EXCEPT !.replicas = 0..MaxReplicas]

NextReplicas == NextOf(OneLinkReplicas)

SpecReplicas == Init /\ [][NextReplicas]_vars

(* ----------------- several client links, backend Ready ----------------- *)

\* the state the leader u0 leaves when it has handled database-created with
\* a complete backend databag and no client relation exists yet
InitLinks ==
    /\ leader = "u0"
    /\ backend = [rel |-> "present", bag |-> BackendFields, replicas |-> <<>>,
                  ready |-> TRUE]
    /\ pg = [roles |-> {AuthUser}, dbs |-> {}, authfn |-> {PGB, PG}]
    /\ rels = [r \in Rels |-> NoRel]
    /\ ubag = [r \in Rels |-> [u \in Units |-> EmptyBag]]
    /\ abag = [r \in Rels |-> EmptyBag]
    /\ peers = [pw |-> EmptyMap, flags |-> {}]
    /\ cfg = [databases |-> EmptyMap,
              users |-> Put(EmptyMap, BackendUsername, TRUE),
              settings |-> {"auth_query", "auth_file"}]
    /\ authfile = {AuthUser}
    /\ names = EmptyMap

\* the client link notifications of every relation on a single unit, the
\* leader u0, with the backend Ready throughout
NextLinks ==
    \/ \E r \in Rels : Joined("u0", r, {"pw1"}, {"none"})
    \/ \E r \in Rels : Changed("u0", r)
    \/ \E r \in Rels : Broken("u0", r, {"none"}, {"u0"})
    \/ \E n \in 0..MaxReplicas : ReplicasChange(n)
    \/ EndpointsChanged("u0")
    \/ \E r \in Rels, admin \in BOOLEAN, reqdb \in DbNames :
          ClientRelate(r, admin, reqdb, FALSE)
    \/ \E r \in Rels : ClientRemove(r)
    \/ \E r \in Rels : PeerFlagRaised(r)

SpecLinks == InitLinks /\ [][NextLinks]_vars

\* two regular client links that request the same database, on two units;
\* the leadership moves once, from u0 to u1
NextHandover ==
    \/ \E u \in Units, r \in {1, 2} : Joined(u, r, {"pw1"}, {"none"})
    \/ \E u \in Units, r \in {1, 2} : Changed(u, r)
    \/ \E u \in Units, r \in {1, 2} : Broken(u, r, {"none"}, Units)
    \/ LeaderChange("u1")
    \/ \E r \in {1, 2} : ClientRelate(r, FALSE, "cli", FALSE)
    \/ \E r \in {1, 2} : ClientRemove(r)
    \/ \E r \in {1, 2} : PeerFlagRaised(r)

SpecHandover == InitLinks /\ [][NextHandover]_vars

(* ============================== claims ================================ *)

\* the inputs a handler can be given
Bool == BOOLEAN
BackendFailures == {"none", "auth_function_1", "auth_function_2", "delete_user"}

\* the backend calls that create or delete a role or a database
RoleOrDatabaseCalls == {"create_user", "create_database", "delete_user"}

IssuesRoleOrDatabaseCall(o) ==
    \E i \in 1..Len(o.w.calls) : o.w.calls[i].op \in RoleOrDatabaseCalls

\* C1: whichever notification a unit that is not the leader handles next
\* (client join, change, depart, break; backend database-created,
\* endpoints-changed, relation-departed, relation-broken), with whatever
\* inputs, its handler issues no create-role, create-database or delete-role
\* call on the backend.
C1_LeaderOnlyMutation ==
    \A u \in Units \ {leader} :
        /\ \A r \in Visible(u) :
            /\ \A g \in Passwords \cup {None}, f \in JoinFailures :
                  ~IssuesRoleOrDatabaseCall(
                       OnRelationJoined(World, u, r, FALSE, g, f))
            /\ ~IssuesRoleOrDatabaseCall(OnRelationChanged(World, u, r, FALSE))
            /\ \A own \in Bool :
                  ~IssuesRoleOrDatabaseCall(
                       OnRelationDeparted(World, u, r, FALSE, own))
            /\ \A f \in BreakFailures :
                  ~IssuesRoleOrDatabaseCall(
                       OnRelationBroken(World, u, r, FALSE, f))
        /\ \A f \in CreatedFailures :
              ~IssuesRoleOrDatabaseCall(OnDatabaseCreated(World, u, FALSE, f))
        /\ ~IssuesRoleOrDatabaseCall(OnEndpointsChanged(World, u))
        /\ \A self \in Bool, f \in BackendFailures :
              ~IssuesRoleOrDatabaseCall(
                   OnBackendRelationDeparted(World, u, FALSE, self, f))
        /\ \A known \in Bool :
              ~IssuesRoleOrDatabaseCall(OnBackendRelationBroken(World, u, known))

\* C1 witness: a unit that is not the leader has handled the join of a
\* relation (its databag holds the user) whose role the backend does not
\* have, while the leader, handling the same join now, would create it.
C1_Witness ==
    \E u \in Units \ {leader}, r \in Rels :
        /\ r \in Visible(u) \cap Visible(leader)
        /\ ubag[r][u].user = UserOf(r)
        /\ UserOf(r) \notin pg.roles
        /\ IssuesRoleOrDatabaseCall(
               OnRelationJoined(World, leader, r, TRUE, "pw1", "none"))

\* the leader's break of relation r is a teardown: the breaking flag is
\* set, the backend is available and the link's user and database are known
IsTeardown(r) ==
    /\ rels[r].state = "dying"
    /\ leader \notin rels[r].done
    /\ IsBreaking(World, r)
    /\ Postgres
    /\ ubag[r][leader].user # NoName
    /\ ubag[r][leader].database # None

\* the active client links, of either flavor, that were provisioned with
\* database d: the client requests d and a leader has published d in the
\* relation's application databag
ActiveLinksOn(d) ==
    {l \in Rels : /\ rels[l].state = "active"
                  /\ rels[l].reqdb = d
                  /\ abag[l].database = d}

\* the client links that exist and request database d
LinksRequesting(d) ==
    {l \in Rels : rels[l].state \in {"active", "dying"} /\ rels[l].reqdb = d}

\* C2: a leader teardown of a link with database D, every backend call
\* succeeding, leaves D's route in the Config Document while another active
\* link is provisioned with D, and removes the route when no other link
\* requests D.
C2_DatabaseRetention ==
    \A r \in Rels :
        IsTeardown(r) =>
            LET d == ubag[r][leader].database
                o == OnRelationBroken(World, leader, r, TRUE, "none")
            IN /\ (ActiveLinksOn(d) \ {r} # {} /\ d \in DOMAIN cfg.databases)
                      => d \in DOMAIN o.w.cfg.databases
               /\ LinksRequesting(d) \ {r} = {}
                      => d \notin DOMAIN o.w.cfg.databases

\* the databags of world w differ from the current ones at most in the
\* connection string (master) of relation r, in unit u's and the
\* application's databag
OnlyConnectionInfoOf(w, u, r) ==
    /\ \A x \in Rels, y \in Units :
          w.ubag[x][y] = IF x = r /\ y = u
                         THEN [ubag[x][y] EXCEPT !.master = w.ubag[x][y].master]
                         ELSE ubag[x][y]
    /\ \A x \in Rels :
          w.abag[x] = IF x = r
                      THEN [abag[x] EXCEPT !.master = w.abag[x].master]
                      ELSE abag[x]

\* C3: when the leader handles relation-broken of a relation whose breaking
\* flag is not in the peer store, the handler completes, issues no backend
\* call and leaves the Config Document, the peer store, the backend and the
\* credential file as they were; of the databags only the connection info of
\* that relation can change.
C3_BreakWithoutFlag ==
    \A r \in Visible(leader) :
        BreakFlag(r) \notin peers.flags =>
            \A f \in BreakFailures :
                LET o == OnRelationBroken(World, leader, r, TRUE, f)
                IN /\ o.res = "done"
                   /\ o.w.calls = <<>>
                   /\ o.w.cfg = cfg
                   /\ o.w.peers = peers
                   /\ o.w.pg = pg
                   /\ o.w.authfile = authfile
                   /\ OnlyConnectionInfoOf(o.w, leader, r)

\* C3 witness: the leader is about to handle relation-broken, without the
\* flag, of a provisioned link: its user entry, route, peer credential and
\* role exist, and the handler keeps them.
C3_Witness ==
    \E r \in Rels :
        /\ rels[r].state = "dying"
        /\ leader \notin rels[r].done
        /\ BreakFlag(r) \notin peers.flags
        /\ Postgres
        /\ ubag[r][leader].user = UserOf(r)
        /\ UserOf(r) \in DOMAIN cfg.users
        /\ UserOf(r) \in DOMAIN peers.pw
        /\ UserOf(r) \in pg.roles
        /\ ubag[r][leader].database \in DOMAIN cfg.databases
        /\ LET o == OnRelationBroken(World, leader, r, TRUE, "none")
           IN o.res = "done" /\ UserOf(r) \in DOMAIN o.w.cfg.users

\* C4: a leader teardown always removes the link's user entry and peer
\* credential and attempts to delete its role, whatever backend call fails,
\* and keeps the route while another active link is provisioned with the
\* database.
C4_TeardownRemovesUser ==
    \A r \in Rels :
        IsTeardown(r) =>
            \A f \in BreakFailures :
                LET user == ubag[r][leader].user
                    d == ubag[r][leader].database
                    o == OnRelationBroken(World, leader, r, TRUE, f)
                IN /\ user \notin DOMAIN o.w.cfg.users
                   /\ user \notin DOMAIN o.w.peers.pw
                   /\ \E i \in 1..Len(o.w.calls) :
                         o.w.calls[i] = [op |-> "delete_user", arg |-> user]
                   /\ (ActiveLinksOn(d) \ {r} # {} /\ d \in DOMAIN cfg.databases)
                          => d \in DOMAIN o.w.cfg.databases

\* hosts[1], ..., hosts[n] separated by commas, built from the left
RECURSIVE CommaSeparated(_, _)
CommaSeparated(hosts, n) ==
    IF n = 1 THEN hosts[1]
    ELSE CommaSeparated(hosts, n - 1) \o "," \o hosts[n]

\* the standby alias of database d in Config Document c agrees with the
\* replicas the backend reports now
StandbyAliasCorrect(c, d) ==
    IF backend.replicas = <<>>
    THEN Standby(d) \notin DOMAIN c.databases
    ELSE /\ Standby(d) \in DOMAIN c.databases
         /\ c.databases[Standby(d)].host =
                CommaSeparated(backend.replicas, Len(backend.replicas))
         /\ c.databases[Standby(d)].dbname = d

C6_IdempotentRepublish ==
    /\ \A u \in Units, r \in Rels :
          r \in Visible(u) =>
              LET d == ubag[r][u].database
                  once == UpdatePostgresEndpoints(cfg, d, rels[r].admin)
                  twice == UpdatePostgresEndpoints(once.cfg, d, rels[r].admin)
              IN once.ok => (twice.ok /\ twice.cfg = once.cfg)
    /\ \A u \in Units :
          LET once == OnEndpointsChanged(World, u)
              twice == OnEndpointsChanged(once.w, u)
          IN once.res = "done" => (twice.res = "done" /\ twice.w.cfg = once.w.cfg)

\* C6 witness: the backend reports replicas, the first republish changes the
\* Config Document (the standby alias is new or stale) and the second one
\* changes nothing more.
C6_Witness ==
    \E u \in Units, r \in Rels :
        /\ r \in Visible(u)
        /\ ubag[r][u].database # None
        /\ backend.replicas # <<>>
        /\ LET once == OnEndpointsChanged(World, u)
               twice == OnEndpointsChanged(once.w, u)
           IN /\ once.res = "done"
              /\ once.w.cfg # cfg
              /\ twice.w.cfg = once.w.cfg

(* --------------------- username generation ---------------------------- *)

\* the characters application and model names are made of: a letter, the
\* dash that _generate_username replaces, and a digit
NameChars == {"a", "-", "1"}

\* application and model names: up to MaxNameLen characters, starting with
\* a letter and not ending with a dash
NameUniverse ==
    {s \in UNION {[1..k -> NameChars] : k \in 1..MaxNameLen} :
        s[1] = "a" /\ s[Len(s)] # "-"}

RelIds == 1..MaxRelId

\* a deployment with some application and model name, no username
\* generated yet
InitUser ==
    /\ leader = "u0"
    /\ backend = [rel |-> "absent", bag |-> {}, replicas |-> <<>>,
                  ready |-> FALSE]
    /\ pg = [roles |-> {}, dbs |-> {}, authfn |-> {}]
    /\ rels = [r \in Rels |-> NoRel]
    /\ ubag = [r \in Rels |-> [u \in Units |-> EmptyBag]]
    /\ abag = [r \in Rels |-> EmptyBag]
    /\ peers = [pw |-> EmptyMap, flags |-> {}]
    /\ cfg = [databases |-> EmptyMap, users |-> EmptyMap, settings |-> {}]
    /\ authfile = {}
    /\ names \in {[app |-> a, model |-> m, out |-> EmptyMap] :
                     a \in NameUniverse, m \in NameUniverse}

\* unit u runs _generate_username for the relation with id relid (db.py 212,
\* 400, 427); a re-delivery runs it again for the same pair
Generate(u, relid) ==
    /\ \/ <<u, relid>> \in DOMAIN names.out
       \/ Cardinality(DOMAIN names.out) < 2
    /\ names' = [names EXCEPT !.out =
                    Put(@, <<u, relid>>,
                        GenerateUsername(names.app, relid, names.model))]
    /\ UNCHANGED <<leader, backend, pg, rels, ubag, abag, peers, cfg, authfile>>

NextUser == \E u \in Units, relid \in RelIds : Generate(u, relid)

SpecUser == InitUser /\ [][NextUser]_vars

\* C7: for a fixed application and model, the usernames generated for the
\* same relation id are the same string on every unit and every run, and the
\* usernames generated for two different relation ids differ.
C7_UsernameDeterminism ==
    \A k1 \in DOMAIN names.out, k2 \in DOMAIN names.out :
        /\ names.out[k1] = GenerateUsername(names.app, k1[2], names.model)
        /\ k1[2] = k2[2] => names.out[k1] = names.out[k2]
        /\ k1[2] # k2[2] => names.out[k1] # names.out[k2]

\* C7 witness: an application name with a dash and a model name ending with
\* a digit; two units have generated the username of relation 1 and of
\* relation 11, whose decimal forms share a prefix.
C7_Witness ==
    /\ \E i \in 1..Len(names.app) : names.app[i] = "-"
    /\ names.model[Len(names.model)] = "1"
    /\ \E u1 \in Units, u2 \in Units :
          /\ u1 # u2
          /\ DOMAIN names.out = {<<u1, 1>>, <<u2, 11>>}
          /\ names.out[<<u1, 1>>] # names.out[<<u2, 11>>]

\* a leader with a Ready backend about to handle the join of a non-admin
\* link that requests database "cli"
IsLeaderJoinCli(r) ==
    /\ r \in Visible(leader)
    /\ CheckStatusActive
    /\ ~rels[r].admin
    /\ rels[r].reqdb = "cli"

\* C8 as stated: once the leader's join handler has completed, the Config
\* Document holds the route databases["cli"] with auth_user set and the user
\* entry of the generated username with is_admin false.
C8_JoinAddsRouteAndUser ==
    \A r \in Rels :
        IsLeaderJoinCli(r) =>
            \A g \in Passwords, f \in JoinFailures :
                LET o == OnRelationJoined(World, leader, r, TRUE, g, f)
                IN o.res = "done" =>
                      /\ "cli" \in DOMAIN o.w.cfg.databases
                      /\ o.w.cfg.databases["cli"].auth_user # NoName
                      /\ UserOf(r) \in DOMAIN o.w.cfg.users
                      /\ o.w.cfg.users[UserOf(r)] = FALSE

\* C8 amended: once the leader's join handler has completed, the Config
\* Document holds the user entry of the generated username with is_admin
\* false and the routes it held before; the route databases["cli"] with
\* auth_user set is there once the leader has also handled the link's
\* change notification.
C8_JoinAddsUserChangeAddsRoute ==
    \A r \in Rels :
        IsLeaderJoinCli(r) =>
            \A g \in Passwords, f \in JoinFailures :
                LET o == OnRelationJoined(World, leader, r, TRUE, g, f)
                    c == OnRelationChanged(o.w, leader, r, TRUE)
                IN o.res = "done" =>
                      /\ UserOf(r) \in DOMAIN o.w.cfg.users
                      /\ o.w.cfg.users[UserOf(r)] = FALSE
                      /\ o.w.cfg.databases = cfg.databases
                      /\ c.res = "done"
                      /\ "cli" \in DOMAIN c.w.cfg.databases
                      /\ c.w.cfg.databases["cli"].auth_user = AuthUser
                      /\ AuthUser # NoName
                      /\ UserOf(r) \in DOMAIN c.w.cfg.users
                      /\ c.w.cfg.users[UserOf(r)] = FALSE

\* C8 witness: the leader has completed the join of the link and not yet
\* handled its change: the user entry is in the Config Document, the route
\* "cli" is not, and the change handler adds it.
C8_Witness ==
    \E r \in Rels :
        /\ IsLeaderJoinCli(r)
        /\ ubag[r][leader].user = UserOf(r)
        /\ abag[r].database = "cli"
        /\ UserOf(r) \in DOMAIN cfg.users
        /\ cfg.users[UserOf(r)] = FALSE
        /\ UserOf(r) \in DOMAIN peers.pw
        /\ "cli" \notin DOMAIN cfg.databases
        /\ LET c == OnRelationChanged(World, leader, r, TRUE)
           IN c.res = "done" /\ "cli" \in DOMAIN c.w.cfg.databases

\* C9: a join handled by a unit that is not the leader changes a password
\* in a databag only to the password the peer store holds for the link's
\* username; when the peer store holds none, no databag's password changes.
C9_NoInventedPassword ==
    \A u \in Units \ {leader}, r \in Rels :
        r \in Visible(u) =>
            LET o == OnRelationJoined(World, u, r, FALSE, None, "none")
                stored == IF UserOf(r) \in DOMAIN peers.pw
                          THEN peers.pw[UserOf(r)] ELSE None
            IN /\ \A x \in Rels, y \in Units :
                     o.w.ubag[x][y].password # ubag[x][y].password
                        => (stored # None /\ o.w.ubag[x][y].password = stored)
               /\ \A x \in Rels :
                     o.w.abag[x].password # abag[x].password
                        => (stored # None /\ o.w.abag[x].password = stored)

\* the result o of a handler run by unit u for relation r wrote at most
\* u's own unit databag of r, and changed no other databag
WroteOwnUnitBagOnly(o, u, r) ==
    /\ o.w.wrote \subseteq {UnitBag(r, u)}
    /\ o.w.abag = abag
    /\ \A x \in Rels, y \in Units :
          (x # r \/ y # u) => o.w.ubag[x][y] = ubag[x][y]

\* the result o of a handler run by unit u wrote at most u's own unit
\* databags, and changed no other databag
WroteOwnUnitBagsOnly(o, u) ==
    /\ o.w.wrote \subseteq {UnitBag(x, u) : x \in Rels}
    /\ o.w.abag = abag
    /\ \A x \in Rels, y \in Units : y # u => o.w.ubag[x][y] = ubag[x][y]

\* C10: join, change, depart and update_connection_info run by a unit that
\* is not the leader write only that unit's own databag of the relation, the
\* break handler (which republishes the connection info of every client
\* link) only that unit's own databags, and all of them leave the
\* application databags as they were.
C10_NonLeaderWritesOwnUnitBag ==
    \A u \in Units \ {leader}, r \in Rels :
        r \in Visible(u) =>
            /\ WroteOwnUnitBagOnly(
                   OnRelationJoined(World, u, r, FALSE, None, "none"), u, r)
            /\ WroteOwnUnitBagOnly(OnRelationChanged(World, u, r, FALSE), u, r)
            /\ \A own \in BOOLEAN :
                  WroteOwnUnitBagOnly(
                      OnRelationDeparted(World, u, r, FALSE, own), u, r)
            /\ WroteOwnUnitBagsOnly(
                   OnRelationBroken(World, u, r, FALSE, "none"), u)
            /\ WroteOwnUnitBagOnly(
                   Res(UpdateConnectionInfo(World, u, r, FALSE), "done"), u, r)

\* C10 witness: a unit that is not the leader has joined the link: its own
\* unit databag holds the user and database, the application databag and the
\* leader's unit databag are still empty, and its change handler writes its
\* unit databag again.
C10_Witness ==
    \E u \in Units \ {leader}, r \in Rels :
        /\ r \in Visible(u)
        /\ ubag[r][u].user = UserOf(r)
        /\ ubag[r][u].database # None
        /\ abag[r] = EmptyBag
        /\ ubag[r][leader] = EmptyBag
        /\ LET o == OnRelationChanged(World, u, r, FALSE)
           IN o.res = "done" /\ o.w.wrote = {UnitBag(r, u)}

\* world w is the current one in all but the unit status: no databag, peer
\* store, Config Document, backend or credential file change, no backend
\* call and no databag write
Untouched(w) ==
    /\ w.ubag = ubag /\ w.abag = abag
    /\ w.peers = peers
    /\ w.cfg = cfg
    /\ w.pg = pg
    /\ w.authfile = authfile
    /\ w.ready = backend.ready
    /\ w.calls = <<>>
    /\ w.wrote = {}

\* C11: a join handled while the backend link is not Ready is deferred, not
\* failed, and has no effect: no databag write, no backend call, no
\* peer-store write and no Config Document change, whatever password would
\* be generated and on every unit.
C11_JoinNotReadyDefers ==
    \A u \in Units, r \in Rels :
        (r \in Visible(u) /\ ~CheckStatusActive) =>
            \A g \in Passwords \cup {None}, f \in JoinFailures :
                LET o == OnRelationJoined(World, u, r, u = leader, g, f)
                IN /\ o.res = "deferred"
                   /\ o.w.status # "blocked"
                   /\ Untouched(o.w)

\* C11 witness: the backend relation exists but is not Ready, and the leader
\* is handed the join of a link with a database name and no extensions: the
\* readiness test alone stops the handler.
C11_Witness ==
    \E r \in Rels :
        /\ r \in Visible(leader)
        /\ BackendRelation
        /\ ~CheckStatusActive
        /\ rels[r].reqdb = "cli"
        /\ ~rels[r].ext
        /\ ubag[r][leader] = EmptyBag
        /\ OnRelationJoined(World, leader, r, TRUE, "pw1", "none").res = "deferred"

\* a join with a Ready backend whose remote databags request extensions
IsJoinWithExtensions(u, r) ==
    /\ r \in Visible(u)
    /\ CheckStatusActive
    /\ rels[r].ext

\* C12 as stated: a join with a Ready backend whose remote databags request
\* extensions is failed with a blocked status and creates nothing, whether
\* or not the remote databags hold a database name.
C12_ExtensionsAlwaysFail ==
    \A u \in Units, r \in Rels :
        IsJoinWithExtensions(u, r) =>
            \A g \in Passwords \cup {None}, f \in JoinFailures :
                LET o == OnRelationJoined(World, u, r, u = leader, g, f)
                IN /\ o.res = "failed"
                   /\ o.w.status = "blocked"
                   /\ Untouched(o.w)

\* a databag value that is unset: absent, or the text str(None)
Unset(v) == v \in {None, StrNone}

\* C13: a change notification is deferred and writes nothing whenever the
\* backend is not Ready or this unit's databag of the link lacks a real
\* database, user or password, and no change notification publishes a
\* connection string whose password is unset.
C13_ChangeDefersUntilJoined ==
    \A u \in Units, r \in Rels :
        r \in Visible(u) =>
            LET o == OnRelationChanged(World, u, r, u = leader)
                bag == ubag[r][u]
            IN /\ (\/ ~CheckStatusActive
                   \/ Unset(bag.database)
                   \/ bag.user = NoName
                   \/ Unset(bag.password))
                      => (o.res = "deferred" /\ Untouched(o.w))
               /\ o.w.ubag[r][u].master # ubag[r][u].master
                      => ~Unset(o.w.ubag[r][u].master.password)

\* the handler result o signals defer and has changed nothing
DeferIsClean(o) == o.res = "deferred" => Untouched(o.w)

\* C14: in every handler of the client link and of the backend link, an
\* invocation that signals defer leaves the databags, the peer store with
\* its breaking flags, the Config Document and the backend as they were.
C14_DeferMutatesNothing ==
    \A u \in Units :
        /\ \A r \in Visible(u) :
              /\ \A g \in Passwords \cup {None}, f \in JoinFailures :
                    DeferIsClean(OnRelationJoined(World, u, r, u = leader, g, f))
              /\ DeferIsClean(OnRelationChanged(World, u, r, u = leader))
              /\ \A own \in BOOLEAN :
                    DeferIsClean(OnRelationDeparted(World, u, r, u = leader, own))
              /\ \A f \in BreakFailures :
                    DeferIsClean(OnRelationBroken(World, u, r, u = leader, f))
        /\ \A f \in CreatedFailures :
              DeferIsClean(OnDatabaseCreated(World, u, u = leader, f))
        /\ DeferIsClean(OnEndpointsChanged(World, u))
        /\ \A pgKnown \in BOOLEAN :
              DeferIsClean(OnBackendRelationBroken(World, u, pgKnown))

\* C15: the leader handles the break of relation r with the breaking flag
\* set and defers because its databag of the link lacks the user and
\* database; the join then populates them with the backend available, and
\* the same break is re-delivered: the teardown is carried out, the link's
\* user entry and peer credential are gone afterwards.
C15_DeferredBreakRedelivered ==
    \A r \in Rels :
        (/\ rels[r].state = "dying"
         /\ leader \notin rels[r].done
         /\ IsBreaking(World, r)) =>
            LET first == OnRelationBroken(World, leader, r, TRUE, "none")
                join == OnRelationJoined(first.w, leader, r, TRUE, "pw1", "none")
                again == OnRelationBroken(join.w, leader, r, TRUE, "none")
            IN (first.res = "deferred" /\ join.res = "done") =>
                  /\ again.res = "done"
                  /\ UserOf(r) \notin DOMAIN again.w.cfg.users
                  /\ UserOf(r) \notin DOMAIN again.w.peers.pw

\* C16: a depart handled by the leader for a departure of the operator's
\* own application completes and leaves the breaking flag of relation r in
\* the peer store, under the key the break handler of r looks up; every
\* other depart leaves the flags as they were.
C16_DepartRaisesFlag ==
    \A u \in Units, r \in Rels, own \in BOOLEAN :
        r \in Visible(u) =>
            LET o == OnRelationDeparted(World, u, r, u = leader, own)
            IN IF u = leader /\ own
               THEN /\ o.res = "done"
                    /\ o.w.peers.flags = peers.flags \cup {BreakFlag(r)}
                    /\ IsBreaking(o.w, r)
               ELSE o.w.peers.flags = peers.flags

\* the operations of a sequence of calls, in order
Ops(calls) == [i \in 1..Len(calls) |-> calls[i].op]

\* C17: with a complete backend databag the leader's database-created
\* handler creates the auth role, installs the auth function in the pooler's
\* own database and then the backend root database and nowhere else,
\* renders the credential file with the auth role's entry, writes the auth
\* settings to the Config Document and republishes the endpoints, in this
\* order; on a unit that is not the leader it does none of this.
C17_DatabaseCreatedOrder ==
    \A u \in Units :
        (BackendRelation /\ Postgres) =>
            LET o == OnDatabaseCreated(World, u, u = leader, "none")
            IN IF u = leader
               THEN /\ o.res = "done"
                    /\ Ops(o.w.calls) =
                          <<"create_user", "initialise_auth_function",
                            "initialise_auth_function", "render_auth_file",
                            "render_pgb_config", "update_postgres_endpoints">>
                    /\ o.w.calls[1].arg = AuthUser
                    /\ o.w.calls[2].arg = PGB
                    /\ o.w.calls[3].arg = PG
                    /\ o.w.pg.roles = pg.roles \cup {AuthUser}
                    /\ o.w.pg.authfn = pg.authfn \cup {PGB, PG}
                    /\ o.w.authfile = {AuthUser}
                    /\ {"auth_query", "auth_file"} \subseteq o.w.cfg.settings
                    /\ o.w.cfg = CharmUpdatePostgresEndpoints(
                                     [World EXCEPT !.cfg =
                                         [AddUser(cfg, BackendUsername, TRUE)
                                             EXCEPT !.settings = @ \cup
                                                 {"auth_query", "auth_file"}]],
                                     u, Visible(u)).w.cfg
               ELSE o.res = "done" /\ Untouched(o.w)

\* C17 witness: the backend databag is complete, the link is not Ready yet
\* and the auth role does not exist; the leader's handler completes,
\* creates the role, renders the credential file and makes the link Ready.
C17_Witness ==
    /\ Postgres
    /\ ~backend.ready
    /\ AuthUser \notin pg.roles
    /\ authfile = {}
    /\ LET o == OnDatabaseCreated(World, leader, TRUE, "none")
       IN /\ o.res = "done"
          /\ AuthUser \in o.w.pg.roles
          /\ o.w.authfile = {AuthUser}
          /\ o.w.ready

\* C18: when relation-departed of the backend relation is delivered to the
\* leader with this unit departing, the auth function is removed from every
\* database it is installed in and then the auth role is deleted.
C18_BackendDepartedSevers ==
    (Postgres /\ AuthUser \in pg.roles) =>
        LET o == DispatchBackendDeparted(World, leader, TRUE, TRUE, "none")
        IN /\ o.w.pg.authfn = {}
           /\ AuthUser \notin o.w.pg.roles
           /\ Len(o.w.calls) > 0
           /\ o.w.calls[Len(o.w.calls)].op = "delete_user"
           /\ \A i \in 1..(Len(o.w.calls) - 1) :
                 o.w.calls[i].op = "remove_auth_function"

\* the auth settings of the Config Document
AuthSettings == {"auth_user", "auth_query", "auth_file"}

\* C19: the relation-broken handler of the backend relation completes
\* without error whether or not the relation is still readable, and leaves
\* the Config Document without the backend user entry and without the
\* auth_user, auth_query and auth_file settings, and the credential file
\* deleted.
C19_BackendBrokenStripsAuth ==
    \A u \in Units, pgKnown \in BOOLEAN :
        backend.rel = "broken" =>
            LET o == OnBackendRelationBroken(World, u, pgKnown)
            IN /\ o.res = "done"
               /\ BackendUsername \notin DOMAIN o.w.cfg.users
               /\ o.w.cfg.settings \cap AuthSettings = {}
               /\ o.w.authfile = {}

\* every route of Config Document c names the auth role of the backend
\* link that exists now
RoutesNameAuthRole(c) ==
    \A d \in DOMAIN c.databases :
        /\ BackendRelation
        /\ AuthUser # NoName
        /\ c.databases[d].auth_user = AuthUser

\* C20: every route of the Config Document has as auth_user the auth role
\* of the backend link that exists: while the backend relation exists, and
\* again once its relation-broken has been handled to completion (no route
\* of the broken link is left).
C20_RoutesHaveValidAuthUser ==
    /\ BackendRelation => RoutesNameAuthRole(cfg)
    /\ backend.rel = "broken" =>
          \A u \in Units, pgKnown \in BOOLEAN :
              LET o == OnBackendRelationBroken(World, u, pgKnown)
              IN o.res = "done" => RoutesNameAuthRole(o.w.cfg)

\* the names a standby alias can be derived from: the database names the
\* clients request, and their standby aliases (a client can request a
\* database whose name ends in "_standby")
AliasBases == DbNames \cup {Standby(d) : d \in DbNames}

\* Config Document c holds the standby alias of database d: the entry
\* named D_standby that routes to database D
IsStandbyAlias(c, d) ==
    /\ Standby(d) \in DOMAIN c.databases
    /\ c.databases[Standby(d)].dbname = d

\* C21: in every reachable state, whenever the Config Document holds the
\* alias D_standby it holds the alias D too, whatever change notifications
\* and teardowns of links sharing or not sharing D have been handled.
C21_NoOrphanedStandby ==
    \A d \in AliasBases :
        IsStandbyAlias(cfg, d) => d \in DOMAIN cfg.databases

\* the client links that are active and whose user a leader has published
\* in the relation's application databag
PublishedLinks ==
    {r \in Rels : rels[r].state = "active" /\ abag[r].user = UserOf(r)}

\* C22: in every reachable state the users section of the Config Document
\* holds the username of every client link that has published its user in
\* the relation databag and has not been torn down.
C22_UsersOfPublishedLinks ==
    \A r \in PublishedLinks : UserOf(r) \in DOMAIN cfg.users

\* the password values world w publishes for relation r: in the databags
\* of the relation and in the peer store
PublishedPasswords(w, r) ==
    {w.abag[r].password} \cup {w.ubag[r][u].password : u \in Units}
        \cup (IF UserOf(r) \in DOMAIN w.peers.pw
              THEN {w.peers.pw[UserOf(r)]} ELSE {})

\* C23: when the join of a link is delivered to the leader and, after it
\* has completed, delivered again, the password the second delivery
\* publishes in the relation databags and the peer store is the one the
\* first delivery published, whatever generate_password returns.
C23_PasswordGeneratedOnce ==
    \A r \in Visible(leader) :
        \A g1 \in Passwords, g2 \in Passwords :
            LET first == OnRelationJoined(World, leader, r, TRUE, g1, "none")
                again == OnRelationJoined(first.w, leader, r, TRUE, g2, "none")
            IN (first.res = "done" /\ again.res = "done") =>
                  /\ again.w.abag[r].password = first.w.abag[r].password
                  /\ again.w.ubag[r][leader].password =
                         first.w.ubag[r][leader].password
                  /\ again.w.peers.pw[UserOf(r)] = first.w.peers.pw[UserOf(r)]
                  /\ PublishedPasswords(again.w, r) \ {None}
                         \subseteq PublishedPasswords(first.w, r)

(* ------------- username generation in two deployments ------------------ *)

\* the characters of the identities of two deployments: a letter, the dash
\* that _generate_username replaces and the underscore it replaces it with
UniqueChars == {"a", "-", "_"}

\* application names of up to MaxNameLen characters, and model names of up
\* to two
UniqueApps ==
    {s \in UNION {[1..k -> UniqueChars] : k \in 1..MaxNameLen} :
        s[1] = "a" /\ s[Len(s)] # "-"}
UniqueModels == {s \in UniqueApps : Len(s) <= 2}

\* two deployments of the operator, each with its application and model
\* name, related to the same backend; no username generated yet
InitUnique ==
    /\ leader = "u0"
    /\ backend = [rel |-> "absent", bag |-> {}, replicas |-> <<>>,
                  ready |-> FALSE]
    /\ pg = [roles |-> {}, dbs |-> {}, authfn |-> {}]
    /\ rels = [r \in Rels |-> NoRel]
    /\ ubag = [r \in Rels |-> [u \in Units |-> EmptyBag]]
    /\ abag = [r \in Rels |-> EmptyBag]
    /\ peers = [pw |-> EmptyMap, flags |-> {}]
    /\ cfg = [databases |-> EmptyMap, users |-> EmptyMap, settings |-> {}]
    /\ authfile = {}
    /\ names \in {[app |-> a, model |-> m, out |-> EmptyMap,
                   app2 |-> a2, model2 |-> m2] :
                     a \in UniqueApps, m \in UniqueModels,
                     a2 \in UniqueApps, m2 \in UniqueModels}

\* the leader of the second deployment runs _generate_username for its
\* relation with id relid
GenerateOther(relid) ==
    /\ \/ <<"other", relid>> \in DOMAIN names.out
       \/ Cardinality(DOMAIN names.out) < 2
    /\ names' = [names EXCEPT !.out =
                    Put(@, <<"other", relid>>,
                        GenerateUsername(names.app2, relid, names.model2))]
    /\ UNCHANGED <<leader, backend, pg, rels, ubag, abag, peers, cfg, authfile>>

NextUnique ==
    \/ \E relid \in Rels : Generate("u0", relid)
    \/ \E relid \in Rels : GenerateOther(relid)

SpecUnique == InitUnique /\ [][NextUnique]_vars

\* the triple (application, relation id, model) the username names.out[k]
\* was generated from
TripleOf(k) ==
    IF k[1] = "other" THEN <<names.app2, k[2], names.model2>>
    ELSE <<names.app, k[2], names.model>>

\* C24: the usernames generated from two distinct triples (application
\* identity, relation id, model id) are distinct, also when the identities
\* differ only in "-" versus "_".
C24_UsernamesGloballyUnique ==
    \A k1 \in DOMAIN names.out, k2 \in DOMAIN names.out :
        TripleOf(k1) # TripleOf(k2) => names.out[k1] # names.out[k2]

\* the handler result o issued the backend call op
Issues(o, op) == \E i \in 1..Len(o.w.calls) : o.w.calls[i].op = op

\* C25: when database-created is delivered to the leader again, the backend
\* link being Ready and the auth role created, the handler does not call
\* create-role a second time.
C25_AuthRoleCreatedOnce ==
    (Postgres /\ backend.ready /\ AuthUser \in pg.roles) =>
        \A f \in CreatedFailures :
            ~Issues(OnDatabaseCreated(World, leader, TRUE, f), "create_user")

\* the lists of databases the handlers hand to initialise_auth_function
\* and remove_auth_function
AuthFunctionLists ==
    {CreatedAuthDatabases} \cup {<<d>> : d \in DbNames}

\* C26: a call of initialise_auth_function or remove_auth_function whose
\* script fails in one database of its list fails as a whole and leaves the
\* auth function as it was in every database of the list, the databases
\* before the failing one included.
C26_AuthFunctionAllOrNothing ==
    Postgres =>
        \A dbs \in AuthFunctionLists :
            \A failAt \in 1..Len(dbs) :
                LET inst == InitialiseAuthFunction(World, dbs, failAt)
                    rem == RemoveAuthFunction(World, dbs, failAt)
                IN /\ ~inst.ok
                   /\ inst.w.pg.authfn = pg.authfn
                   /\ ~rem.ok
                   /\ rem.w.pg.authfn = pg.authfn

\* the leader's join of relation r reaches the backend calls: the backend
\* is Ready, the client requests a database and no extensions
IsLeaderJoinProvisioning(r) ==
    /\ r \in Visible(leader)
    /\ CheckStatusActive
    /\ rels[r].reqdb # None
    /\ ~rels[r].ext

\* C27: when a backend call of the leader's join fails (create role, create
\* database or install auth function), the handler sets a blocked status
\* and fails the event, without deferring it, and leaves the Config
\* Document and the peer credential store as they were.
C27_JoinFailureIsBlocked ==
    \A r \in Rels :
        IsLeaderJoinProvisioning(r) =>
            \A g \in Passwords, f \in JoinFailures \ {"none"} :
                LET o == OnRelationJoined(World, leader, r, TRUE, g, f)
                IN /\ o.res = "failed"
                   /\ o.w.status = "blocked"
                   /\ o.w.cfg = cfg
                   /\ o.w.peers = peers

\* the index of the first call of operation op in calls, 0 if there is none
FirstCall(calls, op) ==
    IF \E i \in 1..Len(calls) : calls[i].op = op
    THEN CHOOSE i \in 1..Len(calls) :
            /\ calls[i].op = op
            /\ \A j \in 1..(i - 1) : calls[j].op # op
    ELSE 0

\* C28: the backend relation-departed handler deletes the auth role only
\* after it has removed the auth function from the pooler's own database
\* and the backend root database; when the removal script fails in one of
\* them, it sets a blocked status, fails the event without deferring it and
\* does not delete the auth role.
C28_DepartedRemovesThenDeletes ==
    \A u \in Units, self \in BOOLEAN, f \in BackendFailures :
        LET o == OnBackendRelationDeparted(World, u, u = leader, self, f)
            del == FirstCall(o.w.calls, "delete_user")
        IN /\ del > 0 =>
                /\ \A d \in {PGB, PG} :
                      \E i \in 1..(del - 1) :
                          o.w.calls[i] = [op |-> "remove_auth_function",
                                          arg |-> d]
                /\ o.w.pg.authfn \cap {PGB, PG} = {}
           /\ (/\ u = leader /\ self /\ Postgres
               /\ f \in {"auth_function_1", "auth_function_2"}) =>
                /\ o.res = "failed"
                /\ o.w.status = "blocked"
                /\ del = 0
                /\ o.w.pg.roles = pg.roles

\* C28 witness: the link is Ready with the auth role created and the auth
\* function installed in both databases; the handler, run by the departing
\* leader, deletes the role when both removals succeed, and keeps it, with
\* the event failed, when the removal fails in the second database.
C28_Witness ==
    /\ Postgres
    /\ backend.ready
    /\ AuthUser \in pg.roles
    /\ {PGB, PG} \subseteq pg.authfn
    /\ LET ok == OnBackendRelationDeparted(World, leader, TRUE, TRUE, "none")
           bad == OnBackendRelationDeparted(World, leader, TRUE, TRUE,
                                            "auth_function_2")
       IN /\ ok.res = "done"
          /\ AuthUser \notin ok.w.pg.roles
          /\ bad.res = "failed"
          /\ AuthUser \in bad.w.pg.roles

\* C29: when delete_user fails during a leader teardown, the event is
\* neither deferred nor failed: the handler completes, and the Config
\* Document and the peer store are the ones a teardown without failure
\* leaves: without the link's user entry and peer credential, and without
\* the route when no other link requests the database; the role stays in
\* the backend.
C29_DeleteRoleFailureCompletes ==
    \A r \in Rels :
        IsTeardown(r) =>
            LET user == ubag[r][leader].user
                d == ubag[r][leader].database
                o == OnRelationBroken(World, leader, r, TRUE, "delete_user")
                ok == OnRelationBroken(World, leader, r, TRUE, "none")
            IN /\ o.res = "done"
               /\ user \notin DOMAIN o.w.cfg.users
               /\ user \notin DOMAIN o.w.peers.pw
               /\ LinksRequesting(d) \ {r} = {}
                      => d \notin DOMAIN o.w.cfg.databases
               /\ o.w.cfg = ok.w.cfg
               /\ o.w.peers = ok.w.peers
               /\ Issues(o, "delete_user")
               /\ o.w.pg.roles = pg.roles

\* C29 witness: a leader teardown of a provisioned link that no other link
\* shares its database with: the user entry, the peer credential, the route
\* and the role exist; delete_user fails, the handler completes, the first
\* three are gone and the role is left behind.
C29_Witness ==
    \E r \in Rels :
        /\ IsTeardown(r)
        /\ ubag[r][leader].user \in DOMAIN cfg.users
        /\ ubag[r][leader].user \in DOMAIN peers.pw
        /\ ubag[r][leader].user \in pg.roles
        /\ ubag[r][leader].database \in DOMAIN cfg.databases
        /\ LinksRequesting(ubag[r][leader].database) \ {r} = {}
        /\ LET o == OnRelationBroken(World, leader, r, TRUE, "delete_user")
           IN /\ o.res = "done"
              /\ ubag[r][leader].user \notin DOMAIN o.w.cfg.users
              /\ ubag[r][leader].database \notin DOMAIN o.w.cfg.databases
              /\ ubag[r][leader].user \in o.w.pg.roles

(* ------------------------- allowed subnets ---------------------------- *)

\* the subnets units advertise, in the order sorted() puts their text in;
\* the last one is the subnet of the operator's own unit
SubnetNames == <<"10.0.0.1/32", "10.0.0.2/32", "10.0.0.3/32", "10.0.9.9/32">>
OwnSubnet == 4

\* the values of "egress-subnets": the comma-separated substrings, in
\* order, as indices into SubnetNames; 0 is a substring that is empty once
\* stripped, <<>> the empty string or a missing key
RemoteEgress == {<<>>, <<1>>, <<2, 1>>, <<1, 0, 3>>}
OwnEgress == {<<>>, <<OwnSubnet>>}
AppEgress == {<<>>, <<3>>}

\* names of remote applications: one unrelated to the operator's name, one
\* that is a proper prefix of it and one that begins with it
RemoteApps == {<<"c">>, <<"p">>, AppName \o <<"c">>}

\* Unit.name: f"{app}/{n}"
UnitName(app, n) == app \o <<"/">> \o IntToStr(n)

\* str.startswith
StartsWith(str, prefix) ==
    Len(str) >= Len(prefix) /\ SubSeq(str, 1, Len(prefix)) = prefix

\* the keys of relation.data: the units of the remote application, this
\* unit, and the two applications
UnitKey(app, n) == [kind |-> "Unit", app |-> app, n |-> n]
AppKey(app) == [kind |-> "Application", app |-> app, n |-> 0]
RelationDataKeys(remote) ==
    {UnitKey(remote, n) : n \in 0..(MaxRemoteUnits - 1)}
        \cup {UnitKey(AppName, 0), AppKey(remote), AppKey(AppName)}

\* _comma_split: the substrings that are not empty once stripped
CommaSplit(egress) == {egress[i] : i \in 1..Len(egress)} \ {0}

\* sorted(subnets) of a set of subnets
RECURSIVE Sorted(_)
Sorted(subnets) ==
    IF subnets = {} THEN <<>>
    ELSE LET first == CHOOSE x \in subnets : \A y \in subnets : x <= y
         IN <<first>> \o Sorted(subnets \ {first})

\* ",".join(sorted(subnets))
JoinSorted(subnets) ==
    LET sorted == Sorted(subnets)
    IN JoinComma([i \in 1..Len(sorted) |-> SubnetNames[sorted[i]]])

\* db.py 533: isinstance(unit, Unit) and
\* not unit.name.startswith(self.model.app.name)
IsOtherUnit(key) ==
    key.kind = "Unit" /\ ~StartsWith(UnitName(key.app, key.n), AppName)

\* DbProvides.get_allowed_subnets
GetAllowedSubnets(data) ==
    JoinSorted(UNION {CommaSplit(data[key]) :
                         key \in {k \in DOMAIN data : IsOtherUnit(k)}})

\* a client relation with its remote application and the egress subnets in
\* its databags; nothing published yet
InitSubnets ==
    /\ leader = "u0"
    /\ backend = [rel |-> "absent", bag |-> {}, replicas |-> <<>>,
                  ready |-> FALSE]
    /\ pg = [roles |-> {}, dbs |-> {}, authfn |-> {}]
    /\ rels = [r \in Rels |-> NoRel]
    /\ ubag = [r \in Rels |-> [u \in Units |-> EmptyBag]]
    /\ abag = [r \in Rels |-> EmptyBag]
    /\ peers = [pw |-> EmptyMap, flags |-> {}]
    /\ cfg = [databases |-> EmptyMap, users |-> EmptyMap, settings |-> {}]
    /\ authfile = {}
    /\ \E remote \in RemoteApps :
          names \in {[remote |-> remote, data |-> d, out |-> None] :
                        d \in {x \in [RelationDataKeys(remote) ->
                                         RemoteEgress \cup OwnEgress \cup AppEgress] :
                                  /\ \A n \in 0..(MaxRemoteUnits - 1) :
                                        x[UnitKey(remote, n)] \in RemoteEgress
                                  /\ x[UnitKey(AppName, 0)] \in OwnEgress
                                  /\ x[AppKey(remote)] \in AppEgress
                                  /\ x[AppKey(AppName)] = <<>>}}

\* the change handler publishes "allowed-subnets" (db.py 299)
PublishSubnets ==
    /\ names.out = None
    /\ names' = [names EXCEPT !.out = GetAllowedSubnets(names.data)]
    /\ UNCHANGED <<leader, backend, pg, rels, ubag, abag, peers, cfg, authfile>>

NextSubnets == PublishSubnets

SpecSubnets == InitSubnets /\ [][NextSubnets]_vars

\* the subnets the units of the remote application advertise
RemoteSubnets ==
    UNION {CommaSplit(names.data[UnitKey(names.remote, n)]) :
              n \in 0..(MaxRemoteUnits - 1)}

\* C30: the allowed-subnets value a change notification publishes is the
\* sorted, comma-joined, duplicate-free union of the egress subnets of the
\* units of the remote application, whatever the remote application's name
\* (also one that begins with the operator's application name), and so
\* holds no subnet of the operator's own unit, which advertises a subnet no
\* remote unit advertises.
C30_AllowedSubnets ==
    names.out # None => names.out = JoinSorted(RemoteSubnets)

\* C31: when the leader handles database-created while the backend databag
\* lacks the endpoints, the username or the password, the event is deferred
\* and nothing else happens: no auth role is created, no auth function
\* installed, no credential file rendered, and the Config Document is as it
\* was.
C31_CreatedIncompleteDefers ==
    (BackendRelation /\ ~(BackendFields \subseteq backend.bag)) =>
        \A f \in CreatedFailures :
            LET o == OnDatabaseCreated(World, leader, TRUE, f)
            IN /\ o.res = "deferred"
               /\ o.w.calls = <<>>
               /\ o.w.pg = pg
               /\ o.w.authfile = authfile
               /\ o.w.cfg = cfg
               /\ Untouched(o.w)

\* C31 witness: the backend has published its endpoints and username and
\* not yet its password, the link is not Ready and no role exists; the
\* leader's handler defers.
C31_Witness ==
    /\ BackendRelation
    /\ backend.bag = {"endpoints", "username"}
    /\ ~backend.ready
    /\ pg.roles = {}
    /\ OnDatabaseCreated(World, leader, TRUE, "none").res = "deferred"

\* Config Document c holds neither the user entry of relation r nor the
\* route of database d
Removed(c, r, d) ==
    UserOf(r) \notin DOMAIN c.users /\ d \notin DOMAIN c.databases

\* C32: once the leader has completed the teardown of the last link that
\* references database D, a change or a join of that link delivered again
\* afterwards, to any unit that still sees the relation, leaves the Config
\* Document without the link's user entry and without D's route.
C32_RemovedIsTerminal ==
    \A r \in Rels :
        (IsTeardown(r) /\ LinksRequesting(ubag[r][leader].database) \ {r} = {}) =>
            LET d == ubag[r][leader].database
                o == OnRelationBroken(World, leader, r, TRUE, "none")
            IN (o.res = "done" /\ Removed(o.w.cfg, r, d)) =>
                  \A u \in Units :
                      r \in Visible(u) =>
                          /\ Removed(OnRelationChanged(o.w, u, r, u = leader).w.cfg,
                                     r, d)
                          /\ \A g \in Passwords :
                                Removed(OnRelationJoined(o.w, u, r, u = leader,
                                            IF u = leader THEN g ELSE None,
                                            "none").w.cfg, r, d)

\* the admin-flavor client links that exist and that the leader has not
\* handled the relation-broken of
AdminLinks ==
    {r \in Rels : /\ rels[r].admin
                  /\ rels[r].state \in {"active", "dying"}
                  /\ leader \notin rels[r].done}

\* C33: in every reachable state the route of the backend root database is
\* in the Config Document only if an admin-flavor client link exists: a
\* regular link never adds it, and once the last admin link has been torn
\* down it is absent.
C33_RootRouteOnlyForAdmin ==
    PG \in DOMAIN cfg.databases => AdminLinks # {}

\* the change handler's result o, on unit u for relation r, publishes a
\* connection string or holds a route for the link's database
PublishesConnection(o, u, r) ==
    /\ o.res = "done"
    /\ \/ o.w.ubag[r][u].master # NoMaster
       \/ o.w.ubag[r][u].database \in DOMAIN o.w.cfg.databases

\* C34: a change notification, on any unit, publishes a master connection
\* string and a route for a client link only if the link's role and
\* database exist in the backend, created by the leader's join; after a
\* join that failed at create-role or create-database nothing is published.
C34_PublishOnlyAfterProvisioning ==
    \A u \in Units, r \in Rels :
        r \in Visible(u) =>
            LET o == OnRelationChanged(World, u, r, u = leader)
            IN PublishesConnection(o, u, r) =>
                  /\ UserOf(r) \in pg.roles
                  /\ rels[r].reqdb \in pg.dbs

\* map after holds every entry of map before whose key is in keep, as it
\* was, and no entry that before does not hold
KeepsEntries(before, after, keep) ==
    /\ DOMAIN after \subseteq DOMAIN before
    /\ \A k \in DOMAIN after : after[k] = before[k]
    /\ (keep \cap DOMAIN before) \subseteq DOMAIN after

\* C35: a leader teardown of link l with database D changes in the Config
\* Document only l's user entry and, when no other active link is
\* provisioned with D, the routes to D (the aliases D and D_standby): the
\* user entries of the other links, the routes of every other database and
\* the pooler settings are as they were, and so are the peer-stored
\* credentials of the other links.
C35_TeardownTouchesOwnEntriesOnly ==
    \A r \in Rels :
        IsTeardown(r) =>
            \A f \in BreakFailures :
                LET user == ubag[r][leader].user
                    d == ubag[r][leader].database
                    shared == ActiveLinksOn(d) \ {r} # {}
                    o == OnRelationBroken(World, leader, r, TRUE, f)
                    otherUsers == (DOMAIN cfg.users \cup DOMAIN peers.pw) \ {user}
                    otherRoutes == {k \in DOMAIN cfg.databases :
                                       shared \/ cfg.databases[k].dbname # d}
                IN /\ KeepsEntries(cfg.users, o.w.cfg.users, otherUsers)
                   /\ KeepsEntries(cfg.databases, o.w.cfg.databases, otherRoutes)
                   /\ o.w.cfg.settings = cfg.settings
                   /\ KeepsEntries(peers.pw, o.w.peers.pw, otherUsers)

====
